---- MODULE Spec2Model ----
(***************************************************************************)
(* Model of dirac_webapp_packaging: the build_extjs_sources setuptools     *)
(* command, which compiles the ExtJS sources of a DIRAC web application    *)
(* inside a container (docker or singularity), and the develop / sdist     *)
(* commands that run it first.                                             *)
(*                                                                         *)
(* Strings built with f-strings are modelled as sequences of tokens, so    *)
(* "-v=/site/A:/opt/A:ro" is <<"-v=", "/site", "A", ":", "/opt", "A", ":", *)
(* "ro">>; a filesystem path is the sequence of its components.  Reading a *)
(* bind flag back splits the token sequence at the ":" tokens.             *)
(***************************************************************************)
EXTENDS Naturals, Sequences, FiniteSets

VARIABLES
    registry,   \* importlib.metadata.entry_points()["dirac"], in registry order
    environ,    \* os.environ (the names set in it)
    path_exes,  \* executables shutil.which can resolve
    fs,         \* directories that exist on the host
    entry,      \* the setuptools command invoked, "none" before the invocation
    pc,         \* position of the (single, synchronous) build
    probed,     \* executables given to shutil.which so far
    loaded,     \* modules whose entry point was loaded and called so far
    exe,        \* self._exe
    tmpdir,     \* self._tmpdir: the staging directory, <<>> when not acquired
    cmd,        \* the argument list of _cmd, <<>> when not (yet) produced
    child,      \* argument list of the child process started, <<>> when none
    returncode, \* {} while no child has exited, else {its exit code}
    outcome,    \* how build_extjs_sources.run ended
    super_ran   \* whether develop / sdist reached super().run()

vars == <<registry, environ, path_exes, fs, entry, pc, probed, loaded, exe,
          tmpdir, cmd, child, returncode, outcome, super_ran>>

----------------------------------------------------------------------------
(* Bounds and the sets the inputs are drawn from *)

MaxPlugins == 2

PkgName == "pkg"

Modules == {PkgName, "A", "B"}

StaticLists == {<<>>, <<"/host/s1">>, <<"/host/s1", "/host/s2">>}

Plugins == [module : Modules, static : StaticLists]

Registries == UNION {[1..n -> Plugins] : n \in 0..MaxPlugins}

Uids == {"0", "1000"}

Gids == {"100"}

TmpNames == {"tmpa", "tmpb"}

ExitCodes == {0, 1, 137}

----------------------------------------------------------------------------
(* Program constants *)

SkipFlag == "DIRAC_WEBAPP_NO_COMPILE"

docker_image == "diracgrid/dirac-distribution:latest"

available_exes == <<"docker", "singularity">>

Entrypoint == "/dirac-webapp-compile.py"

----------------------------------------------------------------------------
(* Paths and the filesystem *)

\* the directories Path.mkdir(parents=True, exist_ok=True) leaves existing
Prefixes(p) == {SubSeq(p, 1, k) : k \in 1..Len(p)}

\* os.path.abspath(os.getcwd())
path == <<"/repo">>

\* Path(importlib.util.find_spec(module).origin).parent
module_path(m) == <<"/site", m>>

\* shutil.which
which(e) == IF e \in path_exes THEN <<"/usr/bin", e>> ELSE <<>>

InitFs ==
    {<<"/tmp">>, <<"/usr/bin">>}
        \cup Prefixes(path \o <<"src", PkgName>>)
        \cup UNION {Prefixes(module_path(m)) : m \in Modules}

NoOutcome == [status |-> "none", exc |-> "", code |-> 0]

----------------------------------------------------------------------------
(* run: the skip flag *)

\* faulty variant: the skip flag is never looked at
SkipRequested_never == FALSE

SkipRequested == SkipFlag \in environ

----------------------------------------------------------------------------
(* _cmd: the for / else loop over _available_exes *)

\* faulty variant: the loop keeps the last resolvable candidate instead of breaking
last_resolvable(i) ==
    IF which(available_exes[2]) # <<>> THEN 2
    ELSE IF which(available_exes[1]) # <<>> THEN 1
    ELSE 0

RECURSIVE first_resolvable(_)
\* index in available_exes of the candidate the loop breaks at, 0 when the
\* loop runs to its else branch
first_resolvable(i) ==
    IF i > Len(available_exes) THEN 0
    ELSE IF which(available_exes[i]) # <<>> THEN i
    ELSE first_resolvable(i + 1)

\* the trailing flags _cmd appends for the compiler itself
compile_flags == << <<"-D=", "/opt">>, <<"-n=", PkgName>>, <<"--py3-style">> >>

----------------------------------------------------------------------------
(* _bind_mounts: the generator over the registered entry points *)

\* faulty variant: the current package's own entry is not skipped
IsCurrentPackage_never(e) == FALSE

IsCurrentPackage(e) == PkgName = e.module

\* faulty variant: the check lets two directories through
TooManyStatic_gt2(static_dirs) == Len(static_dirs) > 2

TooManyStatic(static_dirs) == Len(static_dirs) # 1

\* faulty variant: the container name drops the WebApp level
static_name_flat(m) == <<m, "static">>

static_name(m) == <<m, "WebApp", "static">>

\* the two items the generator yields for one plugin, as <<name, path>>
module_yield(e) == <<<<e.module>>, module_path(e.module)>>

static_yield(e) == <<static_name(e.module), <<e.static[1]>>>>

RECURSIVE bind_mounts_from(_, _)
\* what iterating the generator to its end does from entry i on:
\*   yields  the <<name, path>> items it yielded, in order
\*   mkdirs  the directories it created
\*   loads   the modules whose entry point it loaded and called
\*   raised  whether it ended by raising NotImplementedError(static_dirs)
bind_mounts_from(reg, i) ==
    IF i > Len(reg)
    THEN [yields |-> <<>>, mkdirs |-> {}, loads |-> <<>>, raised |-> FALSE]
    ELSE LET e == reg[i] IN
         IF IsCurrentPackage(e) THEN bind_mounts_from(reg, i + 1)
         ELSE IF e.static = <<>>
         THEN LET rest == bind_mounts_from(reg, i + 1) IN
              [rest EXCEPT !.loads = <<e.module>> \o @]
         ELSE IF TooManyStatic(e.static)
         THEN [yields |-> <<module_yield(e)>>, mkdirs |-> {},
               loads |-> <<e.module>>, raised |-> TRUE]
         ELSE LET rest == bind_mounts_from(reg, i + 1) IN
              [yields |-> <<module_yield(e), static_yield(e)>> \o rest.yields,
               mkdirs |-> Prefixes(module_path(e.module) \o <<"WebApp", "static">>)
                            \cup rest.mkdirs,
               loads  |-> <<e.module>> \o rest.loads,
               raised |-> rest.raised]

bind_mounts(reg) == bind_mounts_from(reg, 1)

----------------------------------------------------------------------------
(* _docker_args *)

\* faulty variant: the plugin binds lose their read-only marker
docker_bind_rw(name, p) == <<"-v=">> \o p \o <<":", "/opt">> \o name

\* f"-v={path}:/opt/{name}:ro"
docker_bind(name, p) == <<"-v=">> \o p \o <<":", "/opt">> \o name \o <<":", "ro">>

\* f"-v={self._path}/src/{self._pkg_name}:/opt/{self._pkg_name}"
docker_pkg_bind == <<"-v=">> \o path \o <<"src", PkgName, ":", "/opt", PkgName>>

\* faulty variant: no -u flag
docker_tail_no_user(uid, gid) ==
    << <<"-w=", "/tmp">>, <<docker_image>>, <<Entrypoint>> >>

docker_tail(uid, gid) ==
    << <<"-w=", "/tmp">>, <<"-u=", uid, ":", gid>>, <<docker_image>>, <<Entrypoint>> >>

\* the property's value and effects: exc is "" when it returns cmd
docker_args(reg, uid, gid) ==
    LET bm == bind_mounts(reg) IN
    [exc    |-> IF bm.raised THEN "NotImplementedError" ELSE "",
     mkdirs |-> bm.mkdirs,
     loads  |-> bm.loads,
     cmd    |-> IF bm.raised THEN <<>>
                ELSE << <<"run">>, <<"--rm">> >>
                     \o [k \in 1..Len(bm.yields) |->
                            docker_bind(bm.yields[k][1], bm.yields[k][2])]
                     \o <<docker_pkg_bind>>
                     \o docker_tail(uid, gid)]

----------------------------------------------------------------------------
(* _singularity_args *)

\* f"--bind={tmpdir}:/opt"
staging_bind(tmp) == <<"--bind=">> \o tmp \o <<":", "/opt">>

\* f"--bind={path}:/opt/{name}:ro"
singularity_bind(name, p) ==
    <<"--bind=">> \o p \o <<":", "/opt">> \o name \o <<":", "ro">>

\* f"--bind={self._path}/src/{self._pkg_name}:/opt/{self._pkg_name}"
singularity_pkg_bind ==
    <<"--bind=">> \o path \o <<"src", PkgName, ":", "/opt", PkgName>>

singularity_tail == << <<"docker://", docker_image>>, <<Entrypoint>> >>

\* faulty variant: no placeholder is made for the yielded names
placeholders_none(tmp, yields) == {}

\* (tmpdir / name).mkdir(parents=True, exist_ok=True) for every yielded name
placeholders(tmp, yields) ==
    UNION {Prefixes(tmp \o yields[k][1]) : k \in 1..Len(yields)}

\* the property's value and effects, tmp being the directory that
\* tempfile.TemporaryDirectory() created and dirs the directories existing then
singularity_args(reg, dirs, tmp) ==
    LET bm     == bind_mounts(reg)
        dirs1  == dirs \cup {tmp} \cup bm.mkdirs \cup placeholders(tmp, bm.yields)
        pkgdir == tmp \o <<PkgName>>
        exc    == IF bm.raised THEN "NotImplementedError"
                  ELSE IF pkgdir \in dirs1 THEN "FileExistsError"
                  ELSE ""
    IN
    [exc   |-> exc,
     dirs  |-> IF exc = "" THEN dirs1 \cup {pkgdir} ELSE dirs1,
     loads |-> bm.loads,
     cmd   |-> IF exc # "" THEN <<>>
               ELSE << <<"run">>, <<"--writable">>, <<"--containall">> >>
                    \o <<staging_bind(tmp)>>
                    \o [k \in 1..Len(bm.yields) |->
                           singularity_bind(bm.yields[k][1], bm.yields[k][2])]
                    \o <<singularity_pkg_bind>>
                    \o singularity_tail]

----------------------------------------------------------------------------
(* subprocess.check_call *)

\* faulty variant: subprocess.call, the exit code is dropped
Failed_never(code) == FALSE

\* check_call raises CalledProcessError(retcode, cmd) for these exit codes
Failed(code) == code # 0

----------------------------------------------------------------------------
Init ==
    /\ registry \in Registries
    /\ environ \in SUBSET {SkipFlag}
    /\ path_exes \in SUBSET {"docker", "singularity"}
    /\ fs = InitFs
    /\ entry = "none"
    /\ pc = "idle"
    /\ probed = <<>>
    /\ loaded = <<>>
    /\ exe = "none"
    /\ tmpdir = <<>>
    /\ cmd = <<>>
    /\ child = <<>>
    /\ returncode = {}
    /\ outcome = NoOutcome
    /\ super_ran = FALSE

\* setup.py build_extjs_sources: the command invoked on its own
build_extjs_sources_cmd ==
    /\ pc = "idle"
    /\ entry' = "build_extjs_sources"
    /\ pc' = "run"
    /\ UNCHANGED <<returncode, registry, environ, path_exes, fs, probed, loaded, exe,
                   tmpdir, cmd, child, outcome, super_ran>>

\* develop.run up to self.run_command("build_extjs_sources")
develop_run ==
    /\ pc = "idle"
    /\ entry' = "develop"
    /\ pc' = "run"
    /\ UNCHANGED <<returncode, registry, environ, path_exes, fs, probed, loaded, exe,
                   tmpdir, cmd, child, outcome, super_ran>>

\* sdist.run up to self.run_command("build_extjs_sources")
sdist_run ==
    /\ pc = "idle"
    /\ entry' = "sdist"
    /\ pc' = "run"
    /\ UNCHANGED <<returncode, registry, environ, path_exes, fs, probed, loaded, exe,
                   tmpdir, cmd, child, outcome, super_ran>>

\* build_extjs_sources.run with the skip flag set: warn and return
run_skipped ==
    /\ pc = "run"
    /\ SkipRequested
    /\ outcome' = [status |-> "skipped", exc |-> "", code |-> 0]
    /\ pc' = "returned"
    /\ UNCHANGED <<returncode, registry, environ, path_exes, fs, entry, probed, loaded,
                   exe, tmpdir, cmd, child, super_ran>>

\* build_extjs_sources.run without the skip flag: _cmd probes the candidates
\* and either breaks at the first resolvable one or raises
run_cmd ==
    /\ pc = "run"
    /\ ~SkipRequested
    /\ LET i == first_resolvable(1) IN
       IF i = 0
       THEN /\ probed' = available_exes
            /\ exe' = available_exes[Len(available_exes)]
            /\ outcome' = [status |-> "error", exc |-> "NotImplementedError",
                           code |-> 0]
            /\ pc' = "raised"
       ELSE /\ probed' = SubSeq(available_exes, 1, i)
            /\ exe' = available_exes[i]
            /\ outcome' = outcome
            /\ pc' = "args"
    /\ UNCHANGED <<returncode, registry, environ, path_exes, fs, entry, loaded, tmpdir,
                   cmd, child, super_ran>>

\* _cmd with self._exe = "docker": getattr(self, "_docker_args") and the rest
eval_docker_args ==
    /\ pc = "args"
    /\ exe = "docker"
    /\ \E uid \in Uids, gid \in Gids :
         LET r == docker_args(registry, uid, gid) IN
         /\ fs' = fs \cup r.mkdirs
         /\ loaded' = r.loads
         /\ IF r.exc # ""
            THEN /\ outcome' = [status |-> "error", exc |-> r.exc, code |-> 0]
                 /\ cmd' = cmd
                 /\ pc' = "raised"
            ELSE /\ outcome' = outcome
                 /\ cmd' = <<which(exe)>> \o r.cmd \o compile_flags
                 /\ pc' = "exec"
    /\ UNCHANGED <<returncode, registry, environ, path_exes, entry, probed, exe, tmpdir,
                   child, super_ran>>

\* _cmd with self._exe = "singularity": getattr(self, "_singularity_args")
\* and the rest; TemporaryDirectory() makes a directory of a fresh name
eval_singularity_args ==
    /\ pc = "args"
    /\ exe = "singularity"
    /\ \E t \in TmpNames :
         LET tmp == <<"/tmp", t>>
             r   == singularity_args(registry, fs, tmp)
         IN
         /\ tmp \notin fs
         /\ tmpdir' = tmp
         /\ fs' = r.dirs
         /\ loaded' = r.loads
         /\ IF r.exc # ""
            THEN /\ outcome' = [status |-> "error", exc |-> r.exc, code |-> 0]
                 /\ cmd' = cmd
                 /\ pc' = "raised"
            ELSE /\ outcome' = outcome
                 /\ cmd' = <<which(exe)>> \o r.cmd \o compile_flags
                 /\ pc' = "exec"
    /\ UNCHANGED <<returncode, registry, environ, path_exes, entry, probed, exe, child,
                   super_ran>>

\* subprocess.check_call(cmd): the child is started and run waits for it
check_call ==
    /\ pc = "exec"
    /\ child' = cmd
    /\ pc' = "child"
    /\ UNCHANGED <<returncode, registry, environ, path_exes, fs, entry, probed, loaded,
                   exe, tmpdir, cmd, outcome, super_ran>>

\* the child exits with some code; check_call returns or raises
child_exits ==
    /\ pc = "child"
    /\ \E code \in ExitCodes :
         /\ returncode' = {code}
         /\ IF Failed(code)
            THEN /\ outcome' = [status |-> "error", exc |-> "CalledProcessError",
                                code |-> code]
                 /\ pc' = "raised"
            ELSE /\ outcome' = [status |-> "ok", exc |-> "", code |-> 0]
                 /\ pc' = "returned"
    /\ UNCHANGED <<registry, environ, path_exes, fs, entry, probed, loaded,
                   exe, tmpdir, cmd, child, super_ran>>

\* develop.run after run_command returned: super().run()
develop_super_run ==
    /\ pc = "returned"
    /\ entry = "develop"
    /\ super_ran' = TRUE
    /\ pc' = "done"
    /\ UNCHANGED <<returncode, registry, environ, path_exes, fs, entry, probed, loaded,
                   exe, tmpdir, cmd, child, outcome>>

\* sdist.run after run_command returned: super().run()
sdist_super_run ==
    /\ pc = "returned"
    /\ entry = "sdist"
    /\ super_ran' = TRUE
    /\ pc' = "done"
    /\ UNCHANGED <<returncode, registry, environ, path_exes, fs, entry, probed, loaded,
                   exe, tmpdir, cmd, child, outcome>>

Next ==
    \/ build_extjs_sources_cmd
    \/ develop_run
    \/ sdist_run
    \/ run_skipped
    \/ run_cmd
    \/ eval_docker_args
    \/ eval_singularity_args
    \/ check_call
    \/ child_exits
    \/ develop_super_run
    \/ sdist_super_run

Spec == Init /\ [][Next]_vars

----------------------------------------------------------------------------
(* How a backend reads a bind flag back: the flag name, then the fields     *)
(* between the ":" separators (host path, container path, optional mode).   *)

RECURSIVE split(_, _)
split(toks, sep) ==
    IF toks = <<>> THEN << <<>> >>
    ELSE LET r == split(Tail(toks), sep) IN
         IF Head(toks) = sep THEN << <<>> >> \o r
         ELSE << <<Head(toks)>> \o Head(r) >> \o Tail(r)

is_bind(arg) == arg[1] \in {"-v=", "--bind="}

\* <<container path, host path, access mode>> of a bind flag
binding(arg) ==
    LET f == split(Tail(arg), ":") IN
    <<f[2], f[1], IF Len(f) >= 3 /\ f[3] = <<"ro">> THEN "ro" ELSE "rw">>

bind_flags(c) == SelectSeq(c, is_bind)

\* the bindings of a command in flag order, and as a set
plan(c) == [k \in 1..Len(bind_flags(c)) |-> binding(bind_flags(c)[k])]

bindings(c) == {plan(c)[k] : k \in 1..Len(plan(c))}

is_staging(b) == b[1] = <<"/opt">>

plugin_bindings(c) == {b \in bindings(c) : ~is_staging(b)}

pkg_container == <<"/opt", PkgName>>

pkg_binding == <<pkg_container, path \o <<"src", PkgName>>, "rw">>

\* the entries discovery keeps: another package's, declaring static directories
is_contribution(e) == e.module # PkgName /\ e.static # <<>>

contributions(reg) == SelectSeq(reg, is_contribution)

Finished == pc \in {"returned", "raised", "done"}

----------------------------------------------------------------------------
(* C1: cross-backend equivalence.  When a command has just been synthesized, *)
(* the other backend synthesizes, for the same registry and package, a      *)
(* command carrying the same set of (container path, host path, mode)       *)
(* bindings, the singularity-only staging bind at /opt apart; every plugin  *)
(* binding is read-only and the package's source tree is read-write.        *)
C1_CrossBackendEquivalence ==
    pc = "exec" =>
        \A uid \in Uids, gid \in Gids, t \in TmpNames :
            LET d == docker_args(registry, uid, gid)
                s == singularity_args(registry, InitFs, <<"/tmp", t>>)
            IN
            /\ d.exc = "" /\ s.exc = ""
            /\ bindings(d.cmd) = plugin_bindings(s.cmd)
            /\ plugin_bindings(cmd) = bindings(d.cmd)
            /\ pkg_binding \in bindings(d.cmd)
            /\ pkg_binding \in bindings(s.cmd)
            /\ \A b \in bindings(d.cmd) \cup plugin_bindings(s.cmd) :
                   b # pkg_binding => b[3] = "ro"

\* a singularity command for a registry with two contributions is about to run
C1_Witness ==
    /\ pc = "exec"
    /\ exe = "singularity"
    /\ Len(contributions(registry)) = 2
    /\ Cardinality(bindings(cmd)) >= 5

----------------------------------------------------------------------------
(* C3: with DIRAC_WEBAPP_NO_COMPILE in the environment the build is skipped *)
(* with no side effect: no executable probed, no entry point loaded, no     *)
(* directory created, no staging directory, no command, no child process.   *)
C3_SkipHasNoEffect ==
    SkipFlag \in environ =>
        /\ probed = <<>>
        /\ loaded = <<>>
        /\ fs = InitFs
        /\ tmpdir = <<>>
        /\ cmd = <<>>
        /\ child = <<>>
        /\ returncode = {}
        /\ pc \in {"idle", "run", "returned", "done"}
        /\ pc \in {"returned", "done"} => outcome.status = "skipped"

\* a skipped build although a backend is installed and a plugin contributes
C3_Witness ==
    /\ SkipFlag \in environ
    /\ pc = "returned"
    /\ outcome.status = "skipped"
    /\ path_exes = {"docker", "singularity"}
    /\ Len(contributions(registry)) >= 1

----------------------------------------------------------------------------
(* C7: the backend selected is the first of [docker, singularity] that      *)
(* resolves, the arguments are those of the selected backend alone, and     *)
(* when neither resolves the build fails before any discovery, directory    *)
(* creation or child process.                                               *)
C7_BackendSelection ==
    /\ pc \in {"args", "exec", "child"} \/ cmd # <<>> =>
          /\ exe = "docker" <=> "docker" \in path_exes
          /\ exe = "singularity" <=>
                 ("docker" \notin path_exes /\ "singularity" \in path_exes)
    /\ pc = "exec" =>
          /\ cmd[1] = <<"/usr/bin", exe>>
          /\ exe = "docker" =>
                /\ \A k \in 1..Len(bind_flags(cmd)) : bind_flags(cmd)[k][1] = "-v="
                /\ cmd[3] = <<"--rm">>
                /\ tmpdir = <<>>
          /\ exe = "singularity" =>
                /\ \A k \in 1..Len(bind_flags(cmd)) : bind_flags(cmd)[k][1] = "--bind="
                /\ cmd[3] = <<"--writable">> /\ cmd[4] = <<"--containall">>
                /\ tmpdir # <<>>
    /\ (path_exes = {} /\ probed # <<>>) =>
          /\ pc = "raised"
          /\ outcome = [status |-> "error", exc |-> "NotImplementedError", code |-> 0]
          /\ probed = available_exes
          /\ loaded = <<>>
          /\ fs = InitFs
          /\ tmpdir = <<>>
          /\ cmd = <<>>
          /\ child = <<>>

\* singularity runs because docker does not resolve
C7_Witness ==
    /\ pc = "child"
    /\ path_exes = {"singularity"}
    /\ child[1] = <<"/usr/bin", "singularity">>

----------------------------------------------------------------------------
(* C2: under singularity, once build_extjs_sources.run has finished (it     *)
(* returned or raised), the staging directory acquired in _singularity_args *)
(* no longer exists.                                                        *)
C2_StagingDirRemoved ==
    (Finished /\ tmpdir # <<>>) => tmpdir \notin fs

----------------------------------------------------------------------------
(* C4: when some plugin other than the current package declares two or more *)
(* static directories, no command is produced or executed whatever the      *)
(* backend and wherever the plugin sits, and once discovery has run the     *)
(* build has failed with the error raised for that plugin.                  *)
offending(e) == e.module # PkgName /\ Len(e.static) >= 2

C4_TooManyStaticDirs ==
    (\E k \in 1..Len(registry) : offending(registry[k])) =>
        /\ cmd = <<>>
        /\ child = <<>>
        /\ returncode = {}
        /\ pc \notin {"exec", "child"}
        /\ (pc \notin {"idle", "run", "args"} /\ ~(SkipFlag \in environ)
                /\ path_exes # {}) =>
              /\ pc = "raised"
              /\ outcome = [status |-> "error", exc |-> "NotImplementedError",
                            code |-> 0]
              /\ \E k \in 1..Len(registry) :
                    /\ offending(registry[k])
                    /\ loaded[Len(loaded)] = registry[k].module

\* discovery failed on an offending plugin that is not the first contribution
C4_Witness ==
    /\ pc = "raised"
    /\ exe = "singularity"
    /\ Len(registry) = 2
    /\ is_contribution(registry[1]) /\ ~offending(registry[1])
    /\ offending(registry[2])
    /\ outcome.exc = "NotImplementedError"

----------------------------------------------------------------------------
(* C5 as stated: the bindings of a command are, in discovery order, exactly *)
(* one per contribution (<module>/WebApp/static, the declared static        *)
(* directory, read-only), then the package's own (<package>,                *)
(* <source root>/src/<package>, read-write): N + 1 bindings.                *)
RECURSIVE one_binding_each(_)
one_binding_each(cs) ==
    IF cs = <<>> THEN <<>>
    ELSE << << <<"/opt", Head(cs).module, "WebApp", "static">>,
               <<Head(cs).static[1]>>, "ro" >> >>
         \o one_binding_each(Tail(cs))

\* the bindings of a command, the staging bind apart, in flag order
plugin_plan(c) == SelectSeq(plan(c), LAMBDA b : ~is_staging(b))

C5_OneBindingPerContribution ==
    pc = "exec" =>
        /\ plugin_plan(cmd)
              = one_binding_each(contributions(registry)) \o <<pkg_binding>>
        /\ Len(plugin_plan(cmd)) = Len(contributions(registry)) + 1

(* C5 amended: the bindings of a command are, in discovery order, two per   *)
(* contribution (<module>, the plugin's installed module directory,         *)
(* read-only; then <module>/WebApp/static, the declared static directory,   *)
(* read-only), then the package's own, read-write: 2N + 1 bindings.         *)
RECURSIVE two_bindings_each(_)
two_bindings_each(cs) ==
    IF cs = <<>> THEN <<>>
    ELSE << << <<"/opt", Head(cs).module>>,
               <<"/site", Head(cs).module>>, "ro" >>,
            << <<"/opt", Head(cs).module, "WebApp", "static">>,
               <<Head(cs).static[1]>>, "ro" >> >>
         \o two_bindings_each(Tail(cs))

C5_TwoBindingsPerContribution ==
    pc = "exec" =>
        /\ plugin_plan(cmd)
              = two_bindings_each(contributions(registry)) \o <<pkg_binding>>
        /\ Len(plugin_plan(cmd)) = 2 * Len(contributions(registry)) + 1

\* a command for two contributions of different modules
C5_Witness ==
    /\ pc = "exec"
    /\ Len(contributions(registry)) = 2
    /\ contributions(registry)[1].module # contributions(registry)[2].module
    /\ Len(plugin_plan(cmd)) = 5

----------------------------------------------------------------------------
(* The argument list a backend's _args property returned: the command       *)
(* without the executable in front and the three compiler flags behind.     *)
synthesized(c) == SubSeq(c, 2, Len(c) - Len(compile_flags))

is_identity(arg) == arg[1] = "-u="

has_identity(c) == \E k \in 1..Len(c) : is_identity(c[k])

(* C6 as stated: both backends' argument lists end with the compiler        *)
(* entrypoint and carry the identity-mapping flag -u=<uid>:<gid>.           *)
C6_IdentityFlagInBoth ==
    pc = "exec" =>
        LET a == synthesized(cmd) IN
        /\ a[Len(a)] = <<Entrypoint>>
        /\ has_identity(a)

(* C6 amended: both backends' argument lists end with the image reference   *)
(* (bare for docker, docker://-prefixed for singularity) and then the       *)
(* compiler entrypoint; the identity-mapping flag -u=<uid>:<gid> is in the  *)
(* docker list alone, right before the image reference.                     *)
C6_TailPerBackend ==
    pc = "exec" =>
        LET a == synthesized(cmd)
            n == Len(a)
        IN
        /\ a[n] = <<Entrypoint>>
        /\ exe = "docker" =>
              /\ a[n - 1] = <<docker_image>>
              /\ \E uid \in Uids, gid \in Gids : a[n - 2] = <<"-u=", uid, ":", gid>>
              /\ \A k \in 1..n : is_identity(a[k]) => k = n - 2
        /\ exe = "singularity" =>
              /\ a[n - 1] = <<"docker://", docker_image>>
              /\ ~has_identity(a)

\* a docker command run as a non-root user
C6_Witness ==
    /\ pc = "child"
    /\ exe = "docker"
    /\ \E k \in 1..Len(child) : child[k] = <<"-u=", "1000", ":", "100">>

----------------------------------------------------------------------------
(* C8: a child exiting with a non-zero code c makes run fail with an error  *)
(* carrying exactly c and develop / sdist never reach super().run(); they   *)
(* reach it only after the build step ended with exit code 0 or was skipped.*)
C8_FailurePropagation ==
    /\ \A c \in returncode :
          c # 0 =>
             /\ pc = "raised"
             /\ outcome = [status |-> "error", exc |-> "CalledProcessError",
                           code |-> c]
             /\ ~super_ran
    /\ outcome.status = "error" => ~super_ran /\ pc = "raised"
    /\ super_ran =>
          /\ entry \in {"develop", "sdist"}
          /\ \/ outcome.status = "skipped" /\ child = <<>>
             \/ outcome.status = "ok" /\ returncode = {0}

\* develop aborted by a child that exited with 137
C8_Witness ==
    /\ entry = "develop"
    /\ pc = "raised"
    /\ returncode = {137}
    /\ outcome.code = 137
    /\ ~super_ran

----------------------------------------------------------------------------
(* C9: when the contributions have distinct container paths, no two bind    *)
(* flags of a command have the same container path; and a command never     *)
(* binds the package's own container path twice, even when the registry     *)
(* holds an entry of the package's own module.                              *)
distinct_modules(cs) ==
    \A i, j \in 1..Len(cs) : cs[i].module = cs[j].module => i = j

C9_UniqueContainerPaths ==
    pc = "exec" =>
        LET pl == plan(cmd) IN
        /\ distinct_modules(contributions(registry)) =>
              \A i, j \in 1..Len(pl) : pl[i][1] = pl[j][1] => i = j
        /\ Cardinality({k \in 1..Len(pl) : pl[k][1] = pkg_container}) = 1

\* a command is run although the registry holds an entry of the package's
\* own module declaring a static directory, next to a real contribution
C9_Witness ==
    /\ pc = "child"
    /\ \E k \in 1..Len(registry) :
          registry[k].module = PkgName /\ Len(registry[k].static) = 1
    /\ Len(contributions(registry)) = 1

----------------------------------------------------------------------------
(* C10: in a singularity command the bind of the staging directory at /opt  *)
(* comes before every other bind flag; when the child is started, the       *)
(* staging directory holds a directory at <tempdir>/<container path> for    *)
(* every other binding; plugin binds are read-only, the package's is not.   *)
C10_SingularityOrdering ==
    (pc = "child" /\ exe = "singularity") =>
        LET pl == plan(child) IN
        /\ tmpdir \in fs
        /\ pl[1] = <<<<"/opt">>, tmpdir, "rw">>
        /\ \A k \in 2..Len(pl) :
              /\ ~is_staging(pl[k])
              /\ tmpdir \o Tail(pl[k][1]) \in fs
              /\ pl[k][3] = IF pl[k][1] = pkg_container THEN "rw" ELSE "ro"
        /\ pl[Len(pl)][1] = pkg_container
        /\ Len(pl) = 2 * Len(contributions(registry)) + 2

\* a singularity child started with a contribution bound
C10_Witness ==
    /\ pc = "child"
    /\ exe = "singularity"
    /\ Len(contributions(registry)) >= 1
    /\ Len(plan(child)) >= 4

====
